---- MODULE Spec2Model ----
(***************************************************************************)
(* Verification model of the deployment pattern replicator:                *)
(*   scanner.py / patterns/*.py  - pattern detection over a file tree      *)
(*   template_engine.py          - fixed template bodies                   *)
(*   applicator.py               - skip / preview / write decision         *)
(*                                                                         *)
(* Conventions.  A Python str is a sequence of atoms (so that startswith,  *)
(* suffix, stem and concatenation are computed, not assumed).  A file name *)
(* is such a sequence too: <<"Chart", ".yaml">> is Chart.yaml and          *)
(* <<".", "git">> is .git.  A path is a sequence of file names.  A text is *)
(* a sequence of lines; a line binds a (dotted) YAML key to a value that   *)
(* is a literal, a Jinja placeholder, or a Jinja syntax error.             *)
(***************************************************************************)
EXTENDS Integers, Sequences, FiniteSets, TLC

VARIABLES tmpl, target, source, log, patterns, cls, ana, ren

vars == <<tmpl, target, source, log, patterns, cls, ana, ren>>

-----------------------------------------------------------------------------
(* Strings, names, paths *)

NoStr == <<>>

StartsWith(s, p) == Len(s) >= Len(p) /\ SubSeq(s, 1, Len(p)) = p

Last(s) == s[Len(s)]

Front(s) == SubSeq(s, 1, Len(s) - 1)

SuffixAtoms == {".yaml", ".yml", ".j2", ".txt"}

\* pathlib suffix: the last dot-component of the name, "" when there is none
Suffix(name) == IF Len(name) > 1 /\ Last(name) \in SuffixAtoms THEN Last(name) ELSE ""

\* pathlib stem: the name without its suffix
Stem(name) == IF Suffix(name) = "" THEN name ELSE Front(name)

\* str.startswith('.') on a path part
IsHiddenPart(name) == Len(name) > 0 /\ name[1] = "."

RECURSIVE RemoveAtom(_, _)
\* str.replace(a, '') on a string of atoms
RemoveAtom(s, a) ==
    IF s = <<>> THEN <<>>
    ELSE IF s[1] = a THEN RemoveAtom(Tail(s), a)
         ELSE <<s[1]>> \o RemoveAtom(Tail(s), a)

\* the atoms that contain the substring "application"
ContainsApplication(name) == \E i \in 1..Len(name) : name[i] \in {"application", "-application"}

ChartYaml == <<"Chart", ".yaml">>
ValuesYaml == <<"values", ".yaml">>
TemplatesDir == <<"templates">>
NodeModules == <<"node_modules">>
Vendor == <<"vendor">>

RECURSIVE SetToSeq(_)
\* one enumeration order of a directory listing
SetToSeq(S) ==
    IF S = {} THEN <<>>
    ELSE LET x == CHOOSE y \in S : TRUE IN <<x>> \o SetToSeq(S \ {x})

RECURSIVE Reverse(_)
Reverse(s) == IF s = <<>> THEN <<>> ELSE Reverse(Tail(s)) \o <<s[1]>>

\* the listing order of a directory is the file system's; two orders are modelled
Listing(S, ord) == IF ord = "fwd" THEN SetToSeq(S) ELSE Reverse(SetToSeq(S))

-----------------------------------------------------------------------------
(* Texts: lines, Jinja rendering, YAML parsing *)

\* a line "k: pre X post" where X is a literal v, a placeholder {{ n }},
\* {{ n | default(v) }} or {{ n | default(dv) }} with dv a variable, or an
\* expression jinja2 cannot parse; c names the {% if source_type == c %}
\* block the line stands in (<<>> for none)
Lit(k, v) == [k |-> k, t |-> "lit", pre |-> <<>>, v |-> v, post |-> <<>>,
              n |-> "", hasd |-> FALSE, dv |-> "", c |-> <<>>]
Var(k, n) == [Lit(k, <<>>) EXCEPT !.t = "var", !.n = n]
VarD(k, n, d) == [Lit(k, d) EXCEPT !.t = "var", !.n = n, !.hasd = TRUE]
VarDV(k, n, dv) == [Lit(k, <<>>) EXCEPT !.t = "var", !.n = n, !.dv = dv]
Bad(k) == [Lit(k, <<>>) EXCEPT !.t = "bad"]
Affixed(l, pre, post) == [l EXCEPT !.pre = pre, !.post = post]
IfSourceType(l, c) == [l EXCEPT !.c = c]

\* the keys of lines that bind no mapping key: a sequence item, a bare
\* scalar, and text that is no YAML at all
ListKey == <<"-">>
ScalarKey == <<"=">>
GarbageKey == <<"%">>

\* jinja2 substitution of one line: a defined variable is substituted; an
\* undefined one takes its default() and, without one, renders as the empty
\* string (jinja2's default Undefined type)
RenderLine(l, variables) ==
    IF l.t = "var"
    THEN Lit(l.k, l.pre \o (IF l.n \in DOMAIN variables THEN variables[l.n]
                            ELSE IF l.hasd THEN l.v
                            ELSE IF l.dv \in DOMAIN variables THEN variables[l.dv]
                            ELSE <<>>) \o l.post)
    ELSE [l EXCEPT !.c = <<>>]

\* the lines an {% if source_type == "..." %} block lets through
Emitted(content, variables) ==
    SelectSeq(content, LAMBDA l :
        l.c = <<>> \/ ("source_type" \in DOMAIN variables /\ variables["source_type"] = l.c))

\* jinja2 Template(content).render(**variables): a syntax error anywhere in
\* the body raises TemplateSyntaxError before anything is rendered
Render(content, variables) ==
    IF \E i \in 1..Len(content) : content[i].t = "bad"
    THEN [raised |-> TRUE, text |-> <<>>]
    ELSE LET kept == Emitted(content, variables) IN
         [raised |-> FALSE,
          text |-> [i \in 1..Len(kept) |-> RenderLine(kept[i], variables)]]

\* yaml.safe_load: shape "bad" is a YAMLError; "null" the empty document;
\* "list" a non-empty top-level sequence; "scalar" a bare non-empty string;
\* "map" a mapping (last duplicate wins).
\* A value of NoStr is YAML null (None).
EmptyMap == [k \in {} |-> NoStr]

LastIndexOf(text, k) == CHOOSE i \in 1..Len(text) :
    text[i].k = k /\ \A j \in (i+1)..Len(text) : text[j].k # k

SafeLoad(text) ==
    LET keys == {text[i].k : i \in 1..Len(text)} IN
    IF \E i \in 1..Len(text) : text[i].k = GarbageKey \/ text[i].t # "lit"
    THEN [shape |-> "bad", m |-> EmptyMap]
    ELSE IF text = <<>> THEN [shape |-> "null", m |-> EmptyMap]
    ELSE IF keys = {ListKey} THEN [shape |-> "list", m |-> EmptyMap]
    ELSE IF keys = {ScalarKey} /\ Len(text) = 1 THEN [shape |-> "scalar", m |-> EmptyMap]
    ELSE IF ListKey \in keys \/ ScalarKey \in keys THEN [shape |-> "bad", m |-> EmptyMap]
    ELSE [shape |-> "map", m |-> [k \in keys |-> text[LastIndexOf(text, k)].v]]

\* a nested key p holds a mapping when some key lies strictly below it
IsMapAt(m, p) == \E k \in DOMAIN m : Len(k) > Len(p) /\ StartsWith(k, p)

\* a nested key p is bound at all (to a scalar, null, or a mapping)
HasKey(m, p) == p \in DOMAIN m \/ IsMapAt(m, p)

-----------------------------------------------------------------------------
(* File trees *)

Parents(p) == {SubSeq(p, 1, i) : i \in 1..(Len(p) - 1)}

EmptyFS == [files |-> [p \in {} |-> <<>>], dirs |-> {}]

\* a tree holding the given files (a function path -> text) and extra directories
MkFS(files, extra) ==
    [files |-> files,
     dirs |-> UNION {Parents(p) : p \in DOMAIN files} \cup extra
              \cup UNION {Parents(d) : d \in extra}]

IsFile(fs, p) == p \in DOMAIN fs.files
IsDir(fs, p) == p = <<>> \/ p \in fs.dirs
Exists(fs, p) == IsFile(fs, p) \/ IsDir(fs, p)

\* Path.mkdir(parents=True, exist_ok=True)
Mkdir(fs, p) == [fs EXCEPT !.dirs = @ \cup {p} \cup Parents(p)]

\* Path.write_text / write_bytes: create or truncate, then write
WriteText(fs, p, text) ==
    [fs EXCEPT !.files = [q \in DOMAIN @ \cup {p} |-> IF q = p THEN text ELSE @[q]]]

\* Path.iterdir: the immediate children of d
Iterdir(fs, d) ==
    {p \in DOMAIN fs.files \cup fs.dirs : Len(p) = Len(d) + 1 /\ StartsWith(p, d)}

\* the files strictly below d (Path.rglob('*') filtered by is_file)
FilesBelow(fs, d) == {p \in DOMAIN fs.files : Len(p) > Len(d) /\ StartsWith(p, d)}

-----------------------------------------------------------------------------
(* Repositories: a root path, a git state and a file tree *)

MkRepo(root, git, fs) == [root |-> root, git |-> git, fs |-> fs]

\* Path.name of the directory d of a repository (d = <<>> is the root itself)
DirName(repo, d) == Last(repo.root \o d)

\* dict.get(key, default) on a parsed mapping; a nested mapping is no scalar
MappingValue == <<"{mapping}">>

Get(m, k, default) ==
    IF k \in DOMAIN m THEN m[k]
    ELSE IF IsMapAt(m, k) THEN MappingValue
    ELSE default

NoPattern == [type |-> "none", name |-> NoStr, path |-> <<>>, version |-> NoStr,
              configs |-> <<>>, source_type |-> "", template_count |-> -1]

-----------------------------------------------------------------------------
(* patterns/helm.py *)

\* the body of the try block of _analyze_helm_chart
AnalyzeHelmChartBody(repo, chart_dir) ==
    LET fs == repo.fs
        doc == SafeLoad(fs.files[chart_dir \o <<ChartYaml>>])
        m == doc.m
        values_file == chart_dir \o <<ValuesYaml>>
        templates_dir == chart_dir \o <<TemplatesDir>>
    IN  IF doc.shape \in {"bad", "list", "scalar"}
        THEN [raised |-> TRUE, pattern |-> NoPattern]
        ELSE [raised |-> FALSE,
              pattern |->
                [type |-> "helm",
                 name |-> Get(m, <<"name">>, DirName(repo, chart_dir)),
                 path |-> repo.root \o chart_dir,
                 version |-> Get(m, <<"version">>, <<"0.1.0">>),
                 configs |-> IF Exists(fs, values_file)
                             THEN <<repo.root \o values_file>> ELSE <<>>,
                 source_type |-> "",
                 template_count |->
                    IF Exists(fs, templates_dir)
                    THEN Cardinality({p \in Iterdir(fs, templates_dir) :
                                        Suffix(Last(p)) = ".yaml"})
                    ELSE -1]]

\* _analyze_helm_chart: any exception is logged and None is returned
AnalyzeHelmChart(repo, chart_dir) ==
    LET r == AnalyzeHelmChartBody(repo, chart_dir) IN
    IF r.raised THEN [raised |-> FALSE, pattern |-> NoPattern] ELSE r

\* the two skip tests of HelmPatternDetector.detect, on chart_file.parts:
\* the parts of the repository root are parts of the file's path too
HelmSkipped(repo, chart_file) ==
    LET parts == repo.root \o chart_file IN
    \/ \E i \in 1..Len(parts) : IsHiddenPart(parts[i])
    \/ \E i \in 1..Len(parts) : parts[i] \in {NodeModules, Vendor}

RECURSIVE HelmCollect(_, _)
HelmCollect(repo, chart_files) ==
    IF chart_files = <<>> THEN <<>>
    ELSE LET chart_file == chart_files[1]
             r == AnalyzeHelmChart(repo, Front(chart_file))
         IN  (IF ~HelmSkipped(repo, chart_file) /\ r.pattern.type # "none"
              THEN <<r.pattern>> ELSE <<>>)
             \o HelmCollect(repo, Tail(chart_files))

\* HelmPatternDetector.detect
HelmDetect(repo, ord) ==
    HelmCollect(repo, Listing({p \in DOMAIN repo.fs.files : Last(p) = ChartYaml}, ord))

-----------------------------------------------------------------------------
(* patterns/argocd.py *)

ArgoPrefix == <<"argoproj.io", "/">>
Application == <<"Application">>

\* _is_argocd_app matching on the kind alone
IsArgocdAppBodyKindOnly(fs, file_path) ==
    IF ~IsFile(fs, file_path) THEN [raised |-> TRUE, value |-> FALSE]
    ELSE LET doc == SafeLoad(fs.files[file_path])
             m == doc.m
         IN  IF doc.shape \in {"bad", "list", "scalar"}
             THEN [raised |-> TRUE, value |-> FALSE]
             ELSE [raised |-> FALSE, value |-> Get(m, <<"kind">>, NoStr) = Application]

\* the body of the try block of _is_argocd_app; str.startswith on a value that
\* is not a str (None, a mapping) raises AttributeError, as does .get on a list
IsArgocdAppBody(fs, file_path) ==
    IF ~IsFile(fs, file_path) THEN [raised |-> TRUE, value |-> FALSE]
    ELSE LET doc == SafeLoad(fs.files[file_path])
             m == doc.m
             apiVersion == Get(m, <<"apiVersion">>, NoStr)
         IN  IF doc.shape \in {"bad", "list", "scalar"}
             THEN [raised |-> TRUE, value |-> FALSE]
             ELSE IF HasKey(m, <<"apiVersion">>) /\ apiVersion \in {NoStr, MappingValue}
             THEN [raised |-> TRUE, value |-> FALSE]
             ELSE [raised |-> FALSE,
                   value |-> StartsWith(apiVersion, ArgoPrefix)
                             /\ Get(m, <<"kind">>, NoStr) = Application]

\* _is_argocd_app: a bare except turns every failure into False
IsArgocdApp(fs, file_path) ==
    LET r == IsArgocdAppBody(fs, file_path) IN
    IF r.raised THEN [raised |-> FALSE, value |-> FALSE] ELSE r

\* the body of the try block of _analyze_argocd_app
AnalyzeArgocdAppBody(repo, app_file) ==
    LET doc == SafeLoad(repo.fs.files[app_file])
        m == doc.m
        metadataNull == <<"metadata">> \in DOMAIN m
        specNull == <<"spec">> \in DOMAIN m
        sourceNull == <<"spec", "source">> \in DOMAIN m /\ m[<<"spec", "source">>] = NoStr
    IN  IF doc.shape \in {"bad", "list", "scalar"} \/ metadataNull \/ specNull \/ sourceNull
        THEN [raised |-> TRUE, pattern |-> NoPattern]
        ELSE [raised |-> FALSE,
              pattern |->
                [type |-> "argocd",
                 name |-> Get(m, <<"metadata", "name">>, Stem(Last(app_file))),
                 path |-> repo.root \o Front(app_file),
                 version |-> NoStr,
                 configs |-> <<repo.root \o app_file>>,
                 source_type |-> IF HasKey(m, <<"spec", "source", "helm">>)
                                 THEN "helm" ELSE "kustomize",
                 template_count |-> -1]]

\* _analyze_argocd_app without its except clause
AnalyzeArgocdAppUncaught(repo, app_file) == AnalyzeArgocdAppBody(repo, app_file)

\* _analyze_argocd_app: any exception is logged and None is returned
AnalyzeArgocdApp(repo, app_file) ==
    LET r == AnalyzeArgocdAppBody(repo, app_file) IN
    IF r.raised THEN [raised |-> FALSE, pattern |-> NoPattern] ELSE r

RECURSIVE ScanArgocdFiles(_, _)
ScanArgocdFiles(repo, yaml_files) ==
    IF yaml_files = <<>> THEN <<>>
    ELSE LET f == yaml_files[1]
             r == AnalyzeArgocdApp(repo, f)
         IN  (IF IsArgocdApp(repo.fs, f).value /\ r.pattern.type # "none"
              THEN <<r.pattern>> ELSE <<>>)
             \o ScanArgocdFiles(repo, Tail(yaml_files))

\* _scan_argocd_directory: glob('*.yaml') over the directory's own entries
ScanArgocdDirectory(repo, argocd_dir, ord) ==
    ScanArgocdFiles(repo,
        Listing({p \in Iterdir(repo.fs, argocd_dir) : Suffix(Last(p)) = ".yaml"}, ord))

ArgocdPaths == << <<<<"argocd">>>>, <<<<"argo-cd">>>>,
                 <<<<"deployments">>, <<"argocd">>>>,
                 <<<<"k8s">>, <<"argocd">>>>, <<<<".", "argocd">>>> >>

RECURSIVE ArgoFirstPass(_, _, _)
ArgoFirstPass(repo, paths, ord) ==
    IF paths = <<>> THEN <<>>
    ELSE (IF Exists(repo.fs, paths[1]) /\ IsDir(repo.fs, paths[1])
          THEN ScanArgocdDirectory(repo, paths[1], ord) ELSE <<>>)
         \o ArgoFirstPass(repo, Tail(paths), ord)

InSeq(x, s) == \E i \in 1..Len(s) : s[i] = x

RECURSIVE ArgoSecondPass(_, _, _)
\* the rglob('*application*.yaml') pass, with "pattern not in patterns"
ArgoSecondPass(repo, app_files, found) ==
    IF app_files = <<>> THEN found
    ELSE LET f == app_files[1]
             r == AnalyzeArgocdApp(repo, f)
             add == IsArgocdApp(repo.fs, f).value /\ r.pattern.type # "none"
                    /\ ~InSeq(r.pattern, found)
         IN  ArgoSecondPass(repo, Tail(app_files),
                            IF add THEN Append(found, r.pattern) ELSE found)

\* fnmatch of a file name against '*application*.yaml'
MatchesApplicationYaml(name) ==
    Suffix(name) = ".yaml" /\ ContainsApplication(Stem(name))

\* detect with the second pass not told what the first pass found
ArgoDetectConcatenating(repo, ord) ==
    ArgoFirstPass(repo, ArgocdPaths, ord)
    \o ArgoSecondPass(repo,
          Listing({p \in DOMAIN repo.fs.files : MatchesApplicationYaml(Last(p))}, ord),
          <<>>)

\* ArgoCDPatternDetector.detect
ArgoDetect(repo, ord) ==
    ArgoSecondPass(repo,
        Listing({p \in DOMAIN repo.fs.files : MatchesApplicationYaml(Last(p))}, ord),
        ArgoFirstPass(repo, ArgocdPaths, ord))

-----------------------------------------------------------------------------
(* patterns/kustomize.py: defined by the package, not used by the scanner *)

KustomizationNames == {<<"kustomization", ".yaml">>, <<"kustomization", ".yml">>}

\* KustomizePatternDetector.detect, reduced to the files it reports
KustomizeDetect(repo, ord) ==
    LET hits == {p \in DOMAIN repo.fs.files :
                    /\ Last(p) \in KustomizationNames
                    /\ ~\E i \in 1..Len(repo.root \o p) : IsHiddenPart((repo.root \o p)[i])
                    /\ SafeLoad(repo.fs.files[p]).shape \in {"null", "map"}}
    IN  [i \in 1..Cardinality(hits) |->
            LET p == Listing(hits, ord)[i] IN
            [type |-> "kustomize", name |-> DirName(repo, Front(p)),
             path |-> repo.root \o Front(p), version |-> NoStr,
             configs |-> <<repo.root \o p>>, source_type |-> "",
             template_count |-> -1]]

-----------------------------------------------------------------------------
(* scanner.py *)

\* scan_repository with the kustomize detector wired in as a third detector
ScanRepositoryWithKustomize(repo, ord) ==
    HelmDetect(repo, ord) \o ArgoDetect(repo, ord) \o KustomizeDetect(repo, ord)

\* DeploymentScanner.scan_repository: the detectors of __init__, in order
ScanRepository(repo, ord) == HelmDetect(repo, ord) \o ArgoDetect(repo, ord)

\* the files the two passes of ArgoCDPatternDetector.detect hand to
\* _is_argocd_app and _analyze_argocd_app
ArgoCandidates(repo) ==
    {p \in DOMAIN repo.fs.files :
        \/ MatchesApplicationYaml(Last(p))
        \/ Suffix(Last(p)) = ".yaml"
           /\ \E i \in 1..Len(ArgocdPaths) : Front(p) = ArgocdPaths[i]}

\* scan_repository calls detect without a try block: an exception that leaves
\* one of the per-file helpers leaves scan_repository too
ScanRaised(repo) ==
    \/ \E p \in DOMAIN repo.fs.files :
          /\ Last(p) = ChartYaml /\ ~HelmSkipped(repo, p)
          /\ AnalyzeHelmChart(repo, Front(p)).raised
    \/ \E p \in ArgoCandidates(repo) :
          \/ IsArgocdApp(repo.fs, p).raised
          \/ IsArgocdApp(repo.fs, p).value /\ AnalyzeArgocdApp(repo, p).raised

\* a pattern's path is absolute; the tree is keyed by paths below the root
Rel(repo, path) == SubSeq(path, Len(repo.root) + 1, Len(path))

\* "word in values" on a loaded document that is no mapping: membership in a
\* list of strings, substring of a bare string
WordIn(word, text, shape) ==
    IF shape = "list" THEN \E i \in 1..Len(text) : text[i].v = <<word>>
    ELSE IF shape = "scalar" THEN InSeq(word, text[1].v)
    ELSE FALSE

\* the params literal of _extract_helm_parameters ('' is the empty sequence)
HelmDefaults(pattern) ==
    [appName |-> pattern.name, namespace |-> <<"default">>,
     image |-> ("repository" :> <<>>) @@ ("tag" :> <<"latest">>)]

\* the keys of the image mapping of a values document
ImageKeys(m) == {k[2] : k \in {q \in DOMAIN m : Len(q) >= 2 /\ q[1] = "image"}}

\* params['image'] = values['image']: the defaults are dropped
UpdateImageReplacing(image, m) ==
    [x \in ImageKeys(m) |-> Get(m, <<"image", x>>, NoStr)]

\* params['image'].update(values['image']) for an image entry that is a mapping
UpdateImage(image, m) ==
    [x \in DOMAIN image \cup ImageKeys(m) |->
        IF x \in ImageKeys(m) THEN Get(m, <<"image", x>>, NoStr) ELSE image[x]]

\* DeploymentScanner._extract_helm_parameters: there is no try block, so a
\* YAMLError of safe_load, the TypeError or ValueError of dict.update on an
\* image entry that is no mapping, and the TypeError of indexing a list or a
\* string with 'image' leave the function
ExtractHelmParameters(repo, pattern) ==
    LET params == HelmDefaults(pattern)
        values_path == Rel(repo, pattern.path) \o <<ValuesYaml>>
        text == repo.fs.files[values_path]
        doc == SafeLoad(text)
        m == doc.m
        failed == [raised |-> TRUE, params |-> params]
    IN  IF ~Exists(repo.fs, values_path) THEN [raised |-> FALSE, params |-> params]
        ELSE IF ~IsFile(repo.fs, values_path) THEN failed
        ELSE IF doc.shape = "bad" THEN failed
        ELSE IF doc.shape = "null" THEN [raised |-> FALSE, params |-> params]
        ELSE IF doc.shape \in {"list", "scalar"}
        THEN IF WordIn("image", text, doc.shape) \/ WordIn("namespace", text, doc.shape)
             THEN failed ELSE [raised |-> FALSE, params |-> params]
        ELSE IF <<"image">> \in DOMAIN m THEN failed
        ELSE [raised |-> FALSE,
              params |-> [params EXCEPT
                 !.image = IF HasKey(m, <<"image">>) THEN UpdateImage(@, m) ELSE @,
                 !.namespace = Get(m, <<"namespace">>, @)]]

\* the params literal of _extract_argocd_parameters
ArgocdDefaults(pattern) ==
    [appName |-> pattern.name, namespace |-> <<"argocd">>, project |-> <<"default">>,
     repoURL |-> <<>>, targetRevision |-> <<"HEAD">>, path |-> <<>>]

\* one iteration of the loop of _extract_argocd_parameters over the configs,
\* with fallback holding the values .get falls back to: a YAMLError, "in" on
\* a spec of None, .get on a destination or source that is no mapping, and
\* indexing a list or a string with 'spec' leave the function
MergeManifestWith(repo, config_path, params, fallback) ==
    LET p == Rel(repo, config_path)
        text == repo.fs.files[p]
        doc == SafeLoad(text)
        m == doc.m
        failed == [raised |-> TRUE, params |-> params]
        kept == [raised |-> FALSE, params |-> params]
    IN  IF ~Exists(repo.fs, p) THEN kept
        ELSE IF ~IsFile(repo.fs, p) THEN failed
        ELSE IF doc.shape = "bad" THEN failed
        ELSE IF doc.shape = "null" THEN kept
        ELSE IF doc.shape \in {"list", "scalar"}
        THEN IF WordIn("spec", text, doc.shape) THEN failed ELSE kept
        ELSE IF ~HasKey(m, <<"spec">>) THEN kept
        ELSE IF <<"spec">> \in DOMAIN m
        THEN IF m[<<"spec">>] = NoStr \/ InSeq("destination", m[<<"spec">>])
                \/ InSeq("source", m[<<"spec">>])
             THEN failed ELSE kept
        ELSE IF <<"spec", "destination">> \in DOMAIN m \/ <<"spec", "source">> \in DOMAIN m
        THEN failed
        ELSE [raised |-> FALSE,
              params |-> [params EXCEPT
                 !.namespace = IF HasKey(m, <<"spec", "destination">>)
                    THEN Get(m, <<"spec", "destination", "namespace">>, fallback.namespace)
                    ELSE @,
                 !.repoURL = IF HasKey(m, <<"spec", "source">>)
                    THEN Get(m, <<"spec", "source", "repoURL">>, fallback.repoURL)
                    ELSE @,
                 !.path = IF HasKey(m, <<"spec", "source">>)
                    THEN Get(m, <<"spec", "source", "path">>, fallback.path)
                    ELSE @]]

\* the iteration with the literal's values as the fallbacks of .get
MergeManifestOverDefaults(repo, config_path, params) ==
    MergeManifestWith(repo, config_path, params,
                      ArgocdDefaults([name |-> params.appName]))

\* the iteration as written: .get falls back to params[...], the value so far
MergeManifest(repo, config_path, params) ==
    MergeManifestWith(repo, config_path, params, params)

RECURSIVE MergeManifests(_, _, _)
\* the loop of _extract_argocd_parameters over pattern.get('configs', [])
MergeManifests(repo, configs, params) ==
    IF configs = <<>> THEN [raised |-> FALSE, params |-> params]
    ELSE LET r == MergeManifest(repo, configs[1], params) IN
         IF r.raised THEN r ELSE MergeManifests(repo, Tail(configs), r.params)

\* DeploymentScanner._extract_argocd_parameters
ExtractArgocdParameters(repo, pattern) ==
    MergeManifests(repo, pattern.configs, ArgocdDefaults(pattern))

\* DeploymentScanner.analyze_pattern: the extractors are called without a try block
AnalyzePattern(repo, pattern) ==
    LET r == IF pattern.type = "helm" THEN ExtractHelmParameters(repo, pattern)
             ELSE IF pattern.type = "argocd" THEN ExtractArgocdParameters(repo, pattern)
             ELSE [raised |-> FALSE, params |-> EmptyMap]
    IN  [raised |-> r.raised,
         analysis |-> [type |-> pattern.type, parameters |-> r.params,
                       structure |-> EmptyMap]]

-----------------------------------------------------------------------------
(* utils/git_helpers.py and applicator.py *)

\* GitHelper.get_remote_url: the origin url, None (NoStr) when the path is no
\* git repository or has no remote
GetRemoteUrl(repo) == IF repo.git.isRepo THEN repo.git.origin ELSE NoStr

\* PatternApplicator._extract_variables_for_repo
ExtractVariablesForRepo(repo) ==
    LET repo_name == Last(repo.root)
        remote == GetRemoteUrl(repo)
    IN  [app_name |-> repo_name,
         repo_url |-> IF remote # NoStr THEN remote
                      ELSE <<"https://github.com/org/">> \o repo_name,
         repo_name |-> repo_name,
         chart_version |-> <<"0.1.0">>,
         app_version |-> <<"1.0.0">>,
         image_repository |-> <<"myorg/">> \o repo_name,
         image_tag |-> <<"latest">>,
         source_path |-> <<"deployments/helm/">> \o repo_name,
         dest_namespace |-> repo_name,
         source_type |-> <<"helm">>]

Deployments == <<"deployments">>
HelmName == <<"helm">>
ArgocdName == <<"argocd">>

RenderedSuffixes == {".yaml", ".yml", ".j2"}

Result(kind, name, status) == [pattern |-> <<kind, "/">> \o name, status |-> status]

NoResult == [pattern |-> <<>>, status |-> "none"]

RECURSIVE CopyChartFiles(_, _, _, _, _)
\* the rglob('*') loop of _apply_helm_chart: files ending in .yaml, .yml or
\* .j2 are rendered, all others are copied; a render failure ends the loop
\* with the files written so far left in place
CopyChartFiles(tfs, template_dir, files, target_path, repo) ==
    IF files = <<>> THEN [fs |-> repo.fs, raised |-> FALSE]
    ELSE LET file_path == files[1]
             relative_path == SubSeq(file_path, Len(template_dir) + 1, Len(file_path))
             target_file == target_path \o relative_path
             fs1 == Mkdir(repo.fs, Front(target_file))
             content == tfs.files[file_path]
             rendered == Render(content, ExtractVariablesForRepo(repo))
         IN  IF Suffix(Last(file_path)) \in RenderedSuffixes
             THEN IF rendered.raised THEN [fs |-> fs1, raised |-> TRUE]
                  ELSE CopyChartFiles(tfs, template_dir, Tail(files), target_path,
                          [repo EXCEPT !.fs = WriteText(fs1, target_file, rendered.text)])
             ELSE CopyChartFiles(tfs, template_dir, Tail(files), target_path,
                          [repo EXCEPT !.fs = WriteText(fs1, target_file, content)])

\* _apply_helm_chart with the dry-run test moved ahead of the existence test
ApplyHelmChartDryRunFirst(tfs, template_dir, repo, existing, dry_run, force, ord) ==
    LET chart_name == Last(template_dir)
        target_path == <<Deployments, HelmName, chart_name>>
    IN  IF dry_run
        THEN [fs |-> repo.fs, raised |-> FALSE,
              result |-> Result("helm", chart_name, "would_apply")]
        ELSE IF existing /\ ~force
        THEN [fs |-> repo.fs, raised |-> FALSE,
              result |-> Result("helm", chart_name, "skipped")]
        ELSE LET r == CopyChartFiles(tfs, template_dir,
                        Listing(FilesBelow(tfs, template_dir), ord), target_path,
                        [repo EXCEPT !.fs = Mkdir(repo.fs, target_path)])
             IN  [fs |-> r.fs, raised |-> r.raised,
                  result |-> IF r.raised THEN NoResult
                             ELSE Result("helm", chart_name, "applied")]

\* PatternApplicator._apply_helm_chart
ApplyHelmChart(tfs, template_dir, repo, existing, dry_run, force, ord) ==
    LET chart_name == Last(template_dir)
        target_path == <<Deployments, HelmName, chart_name>>
    IN  IF existing /\ ~force
        THEN [fs |-> repo.fs, raised |-> FALSE,
              result |-> Result("helm", chart_name, "skipped")]
        ELSE IF dry_run
        THEN [fs |-> repo.fs, raised |-> FALSE,
              result |-> Result("helm", chart_name, "would_apply")]
        ELSE LET r == CopyChartFiles(tfs, template_dir,
                        Listing(FilesBelow(tfs, template_dir), ord), target_path,
                        [repo EXCEPT !.fs = Mkdir(repo.fs, target_path)])
             IN  [fs |-> r.fs, raised |-> r.raised,
                  result |-> IF r.raised THEN NoResult
                             ELSE Result("helm", chart_name, "applied")]

\* PatternApplicator._apply_argocd_app
ApplyArgocdApp(tfs, template_file, repo, existing, dry_run, force) ==
    LET app_name == RemoveAtom(Stem(Last(template_file)), "-application")
        target_path == <<Deployments, ArgocdName, Last(template_file)>>
        fs1 == Mkdir(repo.fs, Front(target_path))
        rendered == Render(tfs.files[template_file], ExtractVariablesForRepo(repo))
    IN  IF existing /\ ~force
        THEN [fs |-> repo.fs, raised |-> FALSE,
              result |-> Result("argocd", app_name, "skipped")]
        ELSE IF dry_run
        THEN [fs |-> repo.fs, raised |-> FALSE,
              result |-> Result("argocd", app_name, "would_apply")]
        ELSE IF rendered.raised
        THEN [fs |-> fs1, raised |-> TRUE, result |-> NoResult]
        ELSE [fs |-> WriteText(fs1, target_path, rendered.text), raised |-> FALSE,
              result |-> Result("argocd", app_name, "applied")]

HasType(pats, type) == \E i \in 1..Len(pats) : pats[i].type = type

RECURSIVE ApplyEntries(_, _, _, _, _, _, _)
\* the inner loop of apply_patterns over type_dir.iterdir(); acc carries the
\* target tree, the results so far and whether an exception has escaped
ApplyEntries(tfs, entries, repo, existing, dry_run, force, acc) ==
    IF entries = <<>> \/ acc.raised THEN acc
    ELSE LET template_path == entries[1]
             cur == [repo EXCEPT !.fs = acc.fs]
             r == IF IsDir(tfs, template_path)
                  THEN ApplyHelmChart(tfs, template_path, cur, HasType(existing, "helm"),
                                      dry_run, force, acc.ord)
                  ELSE ApplyArgocdApp(tfs, template_path, cur, HasType(existing, "argocd"),
                                      dry_run, force)
             handled == IsDir(tfs, template_path)
                        \/ Suffix(Last(template_path)) \in {".yaml", ".yml"}
         IN  ApplyEntries(tfs, Tail(entries), repo, existing, dry_run, force,
                IF ~handled THEN acc
                ELSE [acc EXCEPT !.fs = r.fs, !.raised = r.raised,
                                 !.results = IF r.raised THEN @ ELSE Append(@, r.result)])

RECURSIVE ApplyTypes(_, _, _, _, _, _, _)
\* the outer loop of apply_patterns over ['helm', 'argocd']
ApplyTypes(tfs, types, repo, existing, dry_run, force, acc) ==
    IF types = <<>> \/ acc.raised THEN acc
    ELSE LET type_dir == <<types[1]>> IN
         ApplyTypes(tfs, Tail(types), repo, existing, dry_run, force,
            IF ~Exists(tfs, type_dir) THEN acc
            ELSE ApplyEntries(tfs, Listing(Iterdir(tfs, type_dir), acc.ord), repo,
                              existing, dry_run, force, acc))

\* PatternApplicator.apply_patterns: the target is scanned once, before the loop
ApplyPatterns(tfs, repo, dry_run, force, ord) ==
    ApplyTypes(tfs, <<HelmName, ArgocdName>>, repo, ScanRepository(repo, ord),
               dry_run, force,
               [fs |-> repo.fs, results |-> <<>>, raised |-> FALSE, ord |-> ord])

-----------------------------------------------------------------------------
(* template_engine.py: the fixed template bodies *)

\* chart_template
ChartTemplate ==
    << Lit(<<"apiVersion">>, <<"v2">>),
       Var(<<"name">>, "app_name"),
       Affixed(Var(<<"description">>, "app_name"), <<"A Helm chart for ">>, <<>>),
       Lit(<<"type">>, <<"application">>),
       VarD(<<"version">>, "chart_version", <<"0.1.0">>),
       VarD(<<"appVersion">>, "app_version", <<"1.0.0">>) >>

\* values_template (its leading comment line binds no key)
ValuesTemplate ==
    << VarD(<<"replicaCount">>, "replica_count", <<"1">>),
       VarD(<<"image", "repository">>, "image_repository", <<"nginx">>),
       VarD(<<"image", "pullPolicy">>, "pull_policy", <<"IfNotPresent">>),
       VarD(<<"image", "tag">>, "image_tag", <<"latest">>),
       VarD(<<"service", "type">>, "service_type", <<"ClusterIP">>),
       VarD(<<"service", "port">>, "service_port", <<"80">>),
       VarD(<<"ingress", "enabled">>, "ingress_enabled", <<"false">>),
       VarD(<<"ingress", "className">>, "ingress_class", <<"nginx">>),
       Affixed(Var(<<"ingress", "hosts", "host">>, "app_name"), <<>>, <<".local">>),
       Lit(<<"ingress", "hosts", "paths", "path">>, <<"/">>),
       Lit(<<"ingress", "hosts", "paths", "pathType">>, <<"Prefix">>),
       VarD(<<"resources", "limits", "cpu">>, "cpu_limit", <<"100m">>),
       VarD(<<"resources", "limits", "memory">>, "memory_limit", <<"128Mi">>),
       VarD(<<"resources", "requests", "cpu">>, "cpu_request", <<"100m">>),
       VarD(<<"resources", "requests", "memory">>, "memory_request", <<"128Mi">>) >>

\* deployment_template: its {{ include "..." . }} and {{ .Values... }}
\* expressions are Go template syntax, which jinja2 cannot parse
DeploymentTemplate ==
    << Lit(<<"apiVersion">>, <<"apps/v1">>),
       Lit(<<"kind">>, <<"Deployment">>),
       Bad(<<"metadata", "name">>),
       Bad(<<"metadata", "labels">>),
       Bad(<<"spec", "replicas">>),
       Bad(<<"spec", "selector", "matchLabels">>),
       Bad(<<"spec", "template", "metadata", "labels">>),
       Bad(<<"spec", "template", "spec", "containers", "name">>),
       Bad(<<"spec", "template", "spec", "containers", "image">>),
       Bad(<<"spec", "template", "spec", "containers", "imagePullPolicy">>),
       Lit(<<"spec", "template", "spec", "containers", "ports", "name">>, <<"http">>),
       Bad(<<"spec", "template", "spec", "containers", "ports", "containerPort">>),
       Lit(<<"spec", "template", "spec", "containers", "ports", "protocol">>, <<"TCP">>),
       Bad(<<"spec", "template", "spec", "containers", "resources">>) >>

\* app_template
AppTemplate ==
    << Lit(<<"apiVersion">>, <<"argoproj.io", "/", "v1alpha1">>),
       Lit(<<"kind">>, <<"Application">>),
       Var(<<"metadata", "name">>, "app_name"),
       VarD(<<"metadata", "namespace">>, "argocd_namespace", <<"argocd">>),
       Lit(<<"metadata", "finalizers">>, <<"resources-finalizer.argocd.argoproj.io">>),
       VarD(<<"spec", "project">>, "project", <<"default">>),
       Var(<<"spec", "source", "repoURL">>, "repo_url"),
       VarD(<<"spec", "source", "targetRevision">>, "target_revision", <<"HEAD">>),
       Var(<<"spec", "source", "path">>, "source_path"),
       IfSourceType(Var(<<"spec", "source", "helm", "releaseName">>, "app_name"), <<"helm">>),
       IfSourceType(Lit(<<"spec", "source", "helm", "valueFiles">>, <<"values.yaml">>), <<"helm">>),
       VarD(<<"spec", "destination", "server">>, "dest_server",
            <<"https://kubernetes.default.svc">>),
       VarDV(<<"spec", "destination", "namespace">>, "dest_namespace", "app_name"),
       VarD(<<"spec", "syncPolicy", "automated", "prune">>, "auto_prune", <<"true">>),
       VarD(<<"spec", "syncPolicy", "automated", "selfHeal">>, "self_heal", <<"true">>),
       Lit(<<"spec", "syncPolicy", "syncOptions">>, <<"CreateNamespace=true">>) >>

File(path, content) == [path |-> path, content |-> content]

\* _create_helm_template with output_dir = None
CreateHelmTemplate(pattern) ==
    [type |-> "helm", name |-> pattern.name,
     files |-> << File(<<ChartYaml>>, ChartTemplate),
                  File(<<ValuesYaml>>, ValuesTemplate),
                  File(<<TemplatesDir, <<"deployment", ".yaml">>>>, DeploymentTemplate) >>]

\* _create_argocd_template with output_dir = None
CreateArgocdTemplate(pattern) ==
    [type |-> "argocd", name |-> pattern.name,
     files |-> << File(<<<<"application", ".yaml">>>>, AppTemplate) >>]

RECURSIVE CreateTemplates(_)
\* TemplateEngine.create_templates
CreateTemplates(pats) ==
    IF pats = <<>> THEN <<>>
    ELSE (IF pats[1].type = "helm" THEN <<CreateHelmTemplate(pats[1])>>
          ELSE IF pats[1].type = "argocd" THEN <<CreateArgocdTemplate(pats[1])>>
          ELSE <<>>)
         \o CreateTemplates(Tail(pats))

-----------------------------------------------------------------------------
(* applicator.py: the in-memory (replicate) flow *)

RECURSIVE WriteTemplateFiles(_, _, _, _)
\* the loop of _apply_helm_template over template['files'].items()
WriteTemplateFiles(files, target_path, fs, variables) ==
    IF files = <<>> THEN [fs |-> fs, raised |-> FALSE]
    ELSE LET full_path == target_path \o files[1].path
             fs1 == Mkdir(fs, Front(full_path))
             rendered == Render(files[1].content, variables)
         IN  IF rendered.raised THEN [fs |-> fs1, raised |-> TRUE]
             ELSE WriteTemplateFiles(Tail(files), target_path,
                                     WriteText(fs1, full_path, rendered.text), variables)

\* PatternApplicator._apply_helm_template; joining a path with a name of None
\* raises TypeError
ApplyHelmTemplate(template, repo, variables, dry_run) ==
    LET chart_name == template.name
        target_path == <<Deployments, HelmName, chart_name>>
        r == WriteTemplateFiles(template.files, target_path, repo.fs, variables)
    IN  IF chart_name = NoStr
        THEN [fs |-> repo.fs, raised |-> TRUE, result |-> NoResult]
        ELSE IF dry_run
        THEN [fs |-> repo.fs, raised |-> FALSE,
              result |-> Result("helm", chart_name, "would_apply")]
        ELSE [fs |-> r.fs, raised |-> r.raised,
              result |-> IF r.raised THEN NoResult
                         ELSE Result("helm", chart_name, "applied")]

\* str() of a pattern name inside an f-string
Fmt(name) == IF name = NoStr THEN <<"None">> ELSE name

\* _apply_argocd_template with the directory created ahead of the dry-run test
ApplyArgocdTemplateMkdirFirst(template, repo, variables, dry_run) ==
    LET app_name == Fmt(template.name)
        target_path == <<Deployments, ArgocdName, app_name \o <<"-application", ".yaml">>>>
        fs1 == Mkdir(repo.fs, Front(target_path))
        rendered == Render(template.files[1].content, variables)
    IN  IF dry_run
        THEN [fs |-> fs1, raised |-> FALSE,
              result |-> Result("argocd", app_name, "would_apply")]
        ELSE IF rendered.raised
        THEN [fs |-> fs1, raised |-> TRUE, result |-> NoResult]
        ELSE [fs |-> WriteText(fs1, target_path, rendered.text), raised |-> FALSE,
              result |-> Result("argocd", app_name, "applied")]

\* PatternApplicator._apply_argocd_template
ApplyArgocdTemplate(template, repo, variables, dry_run) ==
    LET app_name == Fmt(template.name)
        target_path == <<Deployments, ArgocdName, app_name \o <<"-application", ".yaml">>>>
        fs1 == Mkdir(repo.fs, Front(target_path))
        rendered == Render(template.files[1].content, variables)
    IN  IF dry_run
        THEN [fs |-> repo.fs, raised |-> FALSE,
              result |-> Result("argocd", app_name, "would_apply")]
        ELSE IF rendered.raised
        THEN [fs |-> fs1, raised |-> TRUE, result |-> NoResult]
        ELSE [fs |-> WriteText(fs1, target_path, rendered.text), raised |-> FALSE,
              result |-> Result("argocd", app_name, "applied")]

RECURSIVE ApplyTemplates(_, _, _, _)
\* the loop of apply_patterns_direct
ApplyTemplates(templates, repo, dry_run, acc) ==
    IF templates = <<>> \/ acc.raised THEN acc
    ELSE LET cur == [repo EXCEPT !.fs = acc.fs]
             variables == ExtractVariablesForRepo(cur)
             r == IF templates[1].type = "helm"
                  THEN ApplyHelmTemplate(templates[1], cur, variables, dry_run)
                  ELSE ApplyArgocdTemplate(templates[1], cur, variables, dry_run)
         IN  ApplyTemplates(Tail(templates), repo, dry_run,
                IF templates[1].type \notin {"helm", "argocd"} THEN acc
                ELSE [acc EXCEPT !.fs = r.fs, !.raised = r.raised,
                                 !.results = IF r.raised THEN @ ELSE Append(@, r.result)])

\* PatternApplicator.apply_patterns_direct
ApplyPatternsDirect(templates, repo, dry_run) ==
    ApplyTemplates(templates, repo, dry_run,
                   [fs |-> repo.fs, results |-> <<>>, raised |-> FALSE])

\* cli.replicate: scan the source, build the templates in memory, apply them
ReplicateCall(src, repo, dry_run, ord) ==
    LET found == ScanRepository(src, ord) IN
    IF found = <<>> THEN [fs |-> repo.fs, results |-> <<>>, raised |-> FALSE]
    ELSE ApplyPatternsDirect(CreateTemplates(found), repo, dry_run)

-----------------------------------------------------------------------------
(* Scenarios: the trees the operations are run on *)

MaxCalls == 2

Web == <<"web">>
Api == <<"api">>
Old == <<"old">>
Demo == <<"demo">>

Home == <<"home">>
TargetRoot == <<Home, <<"shop">>>>
SourceRoot == <<Home, <<"src">>>>

NoGit == [isRepo |-> FALSE, origin |-> NoStr]
WithOrigin == [isRepo |-> TRUE, origin |-> <<"git@example.com:acme/shop.git">>]

\* a file that is copied, not rendered
LogoBytes == << Lit(<<"logo">>, <<"PNG">>) >>

\* a hand-written application manifest
HandWrittenApp(name) ==
    << Lit(<<"apiVersion">>, <<"argoproj.io", "/", "v1alpha1">>),
       Lit(<<"kind">>, <<"Application">>),
       Lit(<<"metadata", "name">>, name),
       Lit(<<"spec", "source", "repoURL">>, <<"https://x/">> \o name),
       Lit(<<"spec", "source", "path">>, <<"deployments/helm/">> \o name),
       Lit(<<"spec", "destination", "namespace">>, <<"prod">>) >>

\* a hand-written chart descriptor
HandWrittenChart(name) ==
    << Lit(<<"apiVersion">>, <<"v2">>),
       Lit(<<"name">>, name),
       Lit(<<"version">>, <<"1.0.0">>) >>

HandWrittenValues ==
    << Lit(<<"image", "repository">>, <<"nginx">>),
       Lit(<<"image", "tag">>, <<"latest">>) >>

\* template directories as "scan --output" lays them out: helm/<name>/... and
\* argocd/<name>-application.yaml; Generated is what the engine itself writes
TemplateSets ==
    { \* a chart without templates/, a copied file, an application manifest
      MkFS((<<HelmName, Web, ChartYaml>> :> ChartTemplate)
           @@ (<<HelmName, Web, ValuesYaml>> :> ValuesTemplate)
           @@ (<<HelmName, Web, <<"logo", ".txt">>>> :> LogoBytes)
           @@ (<<ArgocdName, <<"web", "-application", ".yaml">>>> :> AppTemplate), {}),
      \* an application manifest with the suffix .yml
      MkFS((<<ArgocdName, <<"api", ".yml">>>> :> AppTemplate), {}),
      \* the engine's own output for one chart and one application
      MkFS((<<HelmName, Web, ChartYaml>> :> ChartTemplate)
           @@ (<<HelmName, Web, ValuesYaml>> :> ValuesTemplate)
           @@ (<<HelmName, Web, TemplatesDir, <<"deployment", ".yaml">>>> :> DeploymentTemplate)
           @@ (<<ArgocdName, <<"web", "-application", ".yaml">>>> :> AppTemplate), {}),
      \* two charts and an application manifest
      MkFS((<<HelmName, Web, ChartYaml>> :> ChartTemplate)
           @@ (<<HelmName, Api, ChartYaml>> :> ChartTemplate)
           @@ (<<ArgocdName, <<"api", ".yaml">>>> :> AppTemplate), {}),
      \* a stray file under helm/ and an application manifest
      MkFS((<<HelmName, <<"README", ".txt">>>> :> LogoBytes)
           @@ (<<ArgocdName, <<"web", ".yaml">>>> :> AppTemplate), {}) }

TargetRepos ==
    { MkRepo(TargetRoot, NoGit, EmptyFS),
      MkRepo(TargetRoot, NoGit,
             MkFS((<<Deployments, HelmName, Old, ChartYaml>> :> HandWrittenChart(Old)), {})),
      MkRepo(TargetRoot, WithOrigin,
             MkFS((<<Deployments, ArgocdName, <<"web", "-application", ".yaml">>>>
                      :> HandWrittenApp(Web)), {})),
      MkRepo(TargetRoot, WithOrigin,
             MkFS((<<Deployments, HelmName, Old, ChartYaml>> :> HandWrittenChart(Old))
                  @@ (<<Deployments, ArgocdName, <<"old", ".yaml">>>>
                      :> HandWrittenApp(Old)), {})) }

SourceRepos ==
    { MkRepo(SourceRoot, NoGit, EmptyFS),
      MkRepo(SourceRoot, NoGit,
             MkFS((<<ArgocdName, <<"web", "-application", ".yaml">>>> :> HandWrittenApp(Web)), {})),
      MkRepo(SourceRoot, NoGit,
             MkFS((<<<<"charts">>, Demo, ChartYaml>> :> HandWrittenChart(Demo))
                  @@ (<<<<"charts">>, Demo, ValuesYaml>> :> HandWrittenValues)
                  @@ (<<Deployments, ArgocdName, <<"demo", ".yaml">>>>
                      :> HandWrittenApp(Demo)), {})) }

Orders == {"fwd", "rev"}

NotScanned == [done |-> FALSE, ord |-> "fwd", raised |-> FALSE, pats |-> <<>>]
NotClassified == [done |-> FALSE, file |-> <<>>, raised |-> FALSE, value |-> FALSE]
NotAnalyzed == [done |-> FALSE, pattern |-> NoPattern, raised |-> FALSE,
                analysis |-> [type |-> "none", parameters |-> EmptyMap,
                              structure |-> EmptyMap]]
NotRendered == [done |-> FALSE, content |-> <<>>, variables |-> EmptyMap,
                raised |-> FALSE, text |-> <<>>]

-----------------------------------------------------------------------------
(* The apply flows: "apply" and "replicate" of cli.py against one target *)

Init ==
    /\ tmpl \in TemplateSets
    /\ target \in TargetRepos
    /\ source \in SourceRepos
    /\ log = <<>>
    /\ patterns = NotScanned
    /\ cls = NotClassified
    /\ ana = NotAnalyzed
    /\ ren = NotRendered

Call(op, dry_run, force, ord, r) ==
    [op |-> op, dry_run |-> dry_run, force |-> force, ord |-> ord,
     pre |-> target.fs, post |-> r.fs, results |-> r.results, raised |-> r.raised]

\* cli.apply: one call of apply_patterns on the template directory
Apply(dry_run, force, ord) ==
    /\ Len(log) < MaxCalls
    /\ LET r == ApplyPatterns(tmpl, target, dry_run, force, ord) IN
       /\ target' = [target EXCEPT !.fs = r.fs]
       /\ log' = Append(log, Call("apply", dry_run, force, ord, r))
    /\ UNCHANGED <<tmpl, source, patterns, cls, ana, ren>>

\* cli.replicate: one call of apply_patterns_direct on the source's patterns
Replicate(dry_run, ord) ==
    /\ Len(log) < MaxCalls
    /\ LET r == ReplicateCall(source, target, dry_run, ord) IN
       /\ target' = [target EXCEPT !.fs = r.fs]
       /\ log' = Append(log, Call("replicate", dry_run, FALSE, ord, r))
    /\ UNCHANGED <<tmpl, source, patterns, cls, ana, ren>>

Next ==
    \/ \E dry_run \in BOOLEAN, force \in BOOLEAN, ord \in Orders : Apply(dry_run, force, ord)
    \/ \E dry_run \in BOOLEAN, ord \in Orders : Replicate(dry_run, ord)

Spec == Init /\ [][Next]_vars

-----------------------------------------------------------------------------
(* Vocabulary of the claims about the apply flows *)

\* the entries of the template directory apply_patterns acts on
Handled(tfs) ==
    {p \in Iterdir(tfs, <<HelmName>>) \cup Iterdir(tfs, <<ArgocdName>>) :
        IsDir(tfs, p) \/ Suffix(Last(p)) \in {".yaml", ".yml"}}

KindOf(tfs, p) == IF IsDir(tfs, p) THEN "helm" ELSE "argocd"

\* the identifier a template entry is reported under
PatternOf(tfs, p) ==
    IF IsDir(tfs, p) THEN <<"helm", "/">> \o Last(p)
    ELSE <<"argocd", "/">> \o RemoveAtom(Stem(Last(p)), "-application")

\* the statuses a call reported for an identifier
StatusesOf(call, pattern) ==
    {call.results[i].status : i \in {j \in 1..Len(call.results) :
                                        call.results[j].pattern = pattern}}

\* a scan of the target tree fs finds a pattern of the kind
Present(fs, kind) == HasType(ScanRepository([target EXCEPT !.fs = fs], "fwd"), kind)

Calls == {log[i] : i \in 1..Len(log)}

ApplyCalls == {c \in Calls : c.op = "apply"}

-----------------------------------------------------------------------------
(* C1 *)

\* C1 as stated: in apply_patterns every template of a dry-run call is
\* reported would_apply, whatever the target holds and whatever force is
C1_DryRunAlwaysWouldApply ==
    \A c \in ApplyCalls : c.dry_run =>
        \A p \in Handled(tmpl) : StatusesOf(c, PatternOf(tmpl, p)) = {"would_apply"}

\* C1 as amended: in a dry-run call of apply_patterns a template is reported
\* skipped when a pattern of its kind is present in the target and force is
\* false, and would_apply in every other case; the call does not raise
C1_DryRunStatus ==
    \A c \in ApplyCalls : c.dry_run =>
        /\ ~c.raised
        /\ \A p \in Handled(tmpl) :
              StatusesOf(c, PatternOf(tmpl, p)) =
                 IF Present(c.pre, KindOf(tmpl, p)) /\ ~c.force
                 THEN {"skipped"} ELSE {"would_apply"}

\* a dry-run call without force that reported one template skipped (its kind
\* is present) and another would_apply
C1_Witness ==
    \E c \in ApplyCalls :
        /\ c.dry_run /\ ~c.force
        /\ \E p, q \in Handled(tmpl) :
              /\ Present(c.pre, KindOf(tmpl, p))
              /\ StatusesOf(c, PatternOf(tmpl, p)) = {"skipped"}
              /\ StatusesOf(c, PatternOf(tmpl, q)) = {"would_apply"}

-----------------------------------------------------------------------------
(* C2 *)

\* C2: a call of apply_patterns or apply_patterns_direct with dry_run = true
\* leaves the target tree (files, their contents, directories) as it was
C2_DryRunFrame ==
    \A c \in Calls : c.dry_run => c.post = c.pre

\* a dry-run apply and a dry-run replicate have both reported would_apply
C2_Witness ==
    /\ \E c \in Calls : c.op = "apply" /\ c.dry_run
                        /\ \E i \in 1..Len(c.results) : c.results[i].status = "would_apply"
    /\ \E c \in Calls : c.op = "replicate" /\ c.dry_run
                        /\ \E i \in 1..Len(c.results) : c.results[i].status = "would_apply"

-----------------------------------------------------------------------------
(* C3 *)

\* the first two calls are apply_patterns calls with the given force value,
\* dry_run = false
TwoApplies(force) ==
    /\ Len(log) >= 2
    /\ \A i \in {1, 2} : log[i].op = "apply" /\ ~log[i].dry_run /\ log[i].force = force

\* C3: on a target that holds no pattern, two consecutive apply_patterns calls
\* with force = false and dry_run = false that both return report every
\* template applied in the first call and skipped in the second
C3_ApplyThenSkip ==
    (/\ TwoApplies(FALSE)
     /\ ~log[1].raised /\ ~log[2].raised
     /\ ScanRepository([target EXCEPT !.fs = log[1].pre], "fwd") = <<>>)
    => \A p \in Handled(tmpl) :
          /\ StatusesOf(log[1], PatternOf(tmpl, p)) = {"applied"}
          /\ StatusesOf(log[2], PatternOf(tmpl, p)) = {"skipped"}

-----------------------------------------------------------------------------
(* C4 *)

\* C4: two consecutive apply_patterns calls with force = true and
\* dry_run = false report every template applied both times, and the files
\* of the target have after the second call the content they had after the first
C4_ForceTwice ==
    TwoApplies(TRUE)
    => /\ \A p \in Handled(tmpl) :
             /\ StatusesOf(log[1], PatternOf(tmpl, p)) = {"applied"}
             /\ StatusesOf(log[2], PatternOf(tmpl, p)) = {"applied"}
       /\ log[2].post.files = log[1].post.files

\* what remains of C4 for calls that return: checked to show that the
\* escaping render failure is the only way C4 fails
C4_WhenReturning ==
    (TwoApplies(TRUE) /\ ~log[1].raised /\ ~log[2].raised) => C4_ForceTwice

-----------------------------------------------------------------------------
(* C5 *)

\* C5: in apply_patterns with dry_run = false a template is reported skipped
\* when the scan of the target found a pattern of its kind (of any name) and
\* force is false, and is reported applied in every other case
C5_KindKeyed ==
    \A c \in ApplyCalls : ~c.dry_run =>
        \A p \in Handled(tmpl) :
            StatusesOf(c, PatternOf(tmpl, p)) =
               IF Present(c.pre, KindOf(tmpl, p)) /\ ~c.force
               THEN {"skipped"} ELSE {"applied"}

\* what remains of C5 for calls that return: checked to show that the
\* escaping render failure is the only way C5 fails
C5_WhenReturning ==
    \A c \in ApplyCalls : (~c.dry_run /\ ~c.raised) =>
        \A p \in Handled(tmpl) :
            StatusesOf(c, PatternOf(tmpl, p)) =
               IF Present(c.pre, KindOf(tmpl, p)) /\ ~c.force
               THEN {"skipped"} ELSE {"applied"}

-----------------------------------------------------------------------------
(* C6 *)

KindsOf(repo) == {k \in {"helm", "argocd"} : HasType(ScanRepository(repo, "fwd"), k)}

\* C6: in a replicate call with dry_run = false that returns, a template
\* whose kind is present in the target is reported skipped, and the files the
\* target holds under deployments/<kind> keep their content
C6_ReplicateSkipsPresent ==
    \A c \in Calls : (c.op = "replicate" /\ ~c.dry_run /\ ~c.raised) =>
        \A kind \in KindsOf(source) : Present(c.pre, kind) =>
            /\ \E i \in 1..Len(c.results) : c.results[i].pattern[1] = kind
            /\ \A i \in 1..Len(c.results) :
                  c.results[i].pattern[1] = kind => c.results[i].status = "skipped"
            /\ \A f \in DOMAIN c.pre.files :
                  StartsWith(f, <<Deployments, <<kind>>>>) => c.post.files[f] = c.pre.files[f]

-----------------------------------------------------------------------------
(* The scan flow: "scan" of cli.py and the classifier, over bounded trees *)

MaxFiles == 3

HiddenRoot == <<Home, <<".", "ci">>, <<"src">>>>

ScanRoots == {SourceRoot, HiddenRoot}

Services == <<"services">>
App1 == <<"app1">>
App2 == <<"app2">>

\* the files a scanned tree is drawn from
ScanFiles ==
    (<<Services, App1, ChartYaml>> :> HandWrittenChart(App1))
    @@ (<<Services, App2, ChartYaml>> :> << Lit(<<"version">>, <<"2.0.0">>) >>)
    @@ (<<ArgocdName, <<"one", "-application", ".yaml">>>> :> HandWrittenApp(<<"one">>))
    @@ (<<ArgocdName, <<"two", ".yaml">>>> :> HandWrittenApp(<<"two">>))
    @@ (<<<<"apps">>, <<"application", ".yaml">>>> :>
            << Lit(<<"apiVersion">>, <<"apps", "/", "v1">>),
               Lit(<<"kind">>, <<"Application">>) >>)
    @@ (<<<<"base">>, <<"kustomization", ".yaml">>>> :>
            << Lit(<<"resources">>, <<"deployment.yaml">>) >>)
    @@ (<<Vendor, <<"lib">>, ChartYaml>> :> HandWrittenChart(<<"lib">>))
    @@ (<<<<".", "ci">>, <<"tool">>, ChartYaml>> :> HandWrittenChart(<<"tool">>))
    @@ (<<<<"broken">>, ChartYaml>> :> << Lit(GarbageKey, <<"{{">>) >>)
    @@ (<<<<"listed">>, ChartYaml>> :> << Lit(ListKey, <<"item">>) >>)

\* one more file whose document varies: apiVersion and kind absent, null or
\* set, or a manifest whose metadata, spec or spec.source is null
ProbeFile == <<<<"ops">>, <<"probe", "-application", ".yaml">>>>

Field(k, has, v) == IF has THEN << Lit(k, v) >> ELSE <<>>

ProbeTexts ==
    { Field(<<"apiVersion">>, a.has, a.v) \o Field(<<"kind">>, k.has, k.v)
        \o << Lit(<<"metadata", "name">>, <<"probe">>) >> :
        a \in { [has |-> FALSE, v |-> NoStr], [has |-> TRUE, v |-> NoStr],
                [has |-> TRUE, v |-> <<"argoproj.io", "/", "v1alpha1">>],
                [has |-> TRUE, v |-> <<"argoproj.io">>],
                [has |-> TRUE, v |-> <<"apps", "/", "v1">>] },
        k \in { [has |-> FALSE, v |-> NoStr], [has |-> TRUE, v |-> Application],
                [has |-> TRUE, v |-> <<"Rollout">>] } }
    \cup { <<>>, << Lit(ListKey, <<"item">>) >>, << Lit(ScalarKey, <<"text">>) >>,
           << Lit(GarbageKey, <<"{{">>) >> }
    \cup { << Lit(<<"apiVersion">>, <<"argoproj.io", "/", "v1alpha1">>),
              Lit(<<"kind">>, Application), Lit(k, NoStr) >> :
            k \in {<<"metadata">>, <<"spec">>, <<"spec", "source">>} }

Restrict(f, S) == [x \in S |-> f[x]]

ScanTrees ==
    {Restrict(ScanFiles, S) : S \in {T \in SUBSET DOMAIN ScanFiles : Cardinality(T) <= MaxFiles}}
    \cup {Restrict(ScanFiles, S) @@ (ProbeFile :> t) :
            S \in {T \in SUBSET DOMAIN ScanFiles : Cardinality(T) <= MaxFiles - 1},
            t \in ProbeTexts}

ScanRepos == {MkRepo(root, NoGit, MkFS(files, {})) : root \in ScanRoots, files \in ScanTrees}

InitScan ==
    /\ tmpl = EmptyFS
    /\ target = MkRepo(TargetRoot, NoGit, EmptyFS)
    /\ source \in ScanRepos
    /\ log = <<>>
    /\ patterns = NotScanned
    /\ cls = NotClassified
    /\ ana = NotAnalyzed
    /\ ren = NotRendered

\* cli.scan: one call of scan_repository on the source tree
Scan(ord) ==
    /\ ~patterns.done
    /\ patterns' = [done |-> TRUE, ord |-> ord, raised |-> ScanRaised(source),
                    pats |-> IF ScanRaised(source) THEN <<>>
                             ELSE ScanRepository(source, ord)]
    /\ UNCHANGED <<tmpl, target, source, log, cls, ana, ren>>

\* one call of _is_argocd_app on a path of the tree (or on a missing path)
Classify(file_path) ==
    /\ ~cls.done
    /\ LET r == IsArgocdApp(source.fs, file_path) IN
       cls' = [done |-> TRUE, file |-> file_path, raised |-> r.raised, value |-> r.value]
    /\ UNCHANGED <<tmpl, target, source, log, patterns, ana, ren>>

NextScan ==
    \/ \E ord \in Orders : Scan(ord)
    \/ \E f \in DOMAIN source.fs.files \cup {ProbeFile} : Classify(f)

SpecScan == InitScan /\ [][NextScan]_vars

-----------------------------------------------------------------------------
(* C7 *)

Scanned == patterns.pats

\* C7: a scan returns no two patterns with the same (type, path) pair
C7_UniqueTypePath ==
    patterns.done =>
        \A i, j \in 1..Len(Scanned) :
            (Scanned[i].type = Scanned[j].type /\ Scanned[i].path = Scanned[j].path) => i = j

-----------------------------------------------------------------------------
(* C8 *)

ChartFiles == {p \in DOMAIN source.fs.files : Last(p) = ChartYaml}

\* the chart name the claim expects for a Chart.yaml: declared, else the directory's
ExpectedChartName(p) ==
    LET m == SafeLoad(source.fs.files[p]).m IN
    IF <<"name">> \in DOMAIN m THEN m[<<"name">>] ELSE Last(Front(p))

\* every Chart.yaml parses, none lies below a hidden, vendor or node_modules
\* directory of the repository, and the chart directories have distinct names
C8_Charts ==
    /\ \A p \in ChartFiles :
          /\ SafeLoad(source.fs.files[p]).shape = "map"
          /\ Len(p) >= 2
          /\ \A i \in 1..Len(p) : ~IsHiddenPart(p[i]) /\ p[i] \notin {NodeModules, Vendor}
    /\ \A p, q \in ChartFiles : Last(Front(p)) = Last(Front(q)) => p = q

HelmIndexes == {i \in 1..Len(Scanned) : Scanned[i].type = "helm"}

\* C8: under the conditions above scan_repository returns exactly one helm
\* pattern per chart directory, named as expected, whatever the repository root
C8_OnePatternPerChart ==
    (patterns.done /\ C8_Charts) =>
        /\ Cardinality(HelmIndexes) = Cardinality(ChartFiles)
        /\ {Scanned[i].name : i \in HelmIndexes} = {ExpectedChartName(p) : p \in ChartFiles}

-----------------------------------------------------------------------------
(* C9 *)

\* a file whose document has the API group and kind of an application manifest
IsManifestText(text) ==
    LET d == SafeLoad(text) IN
    /\ d.shape = "map"
    /\ <<"apiVersion">> \in DOMAIN d.m /\ StartsWith(d.m[<<"apiVersion">>], ArgoPrefix)
    /\ <<"kind">> \in DOMAIN d.m /\ d.m[<<"kind">>] = Application

KustomizationFiles == {p \in DOMAIN source.fs.files : Last(p) \in KustomizationNames}

\* C9: a repository without Chart.yaml and without application manifest scans
\* to the empty sequence, and no pattern of a scan comes from a kustomization file
C9_EmptyScan ==
    patterns.done =>
        /\ (ChartFiles = {} /\ \A p \in DOMAIN source.fs.files :
                                  ~IsManifestText(source.fs.files[p]))
              => Scanned = <<>>
        /\ \A i \in 1..Len(Scanned) :
              /\ Scanned[i].type \in {"helm", "argocd"}
              /\ \A p \in KustomizationFiles : source.root \o p \notin
                    {Scanned[i].configs[j] : j \in 1..Len(Scanned[i].configs)}

\* a scanned repository that holds a kustomization file and another file, no
\* Chart.yaml and no application manifest
C9_Witness ==
    /\ patterns.done /\ Scanned = <<>>
    /\ ChartFiles = {}
    /\ KustomizationFiles # {}
    /\ Cardinality(DOMAIN source.fs.files) >= 2
    /\ \A p \in DOMAIN source.fs.files : ~IsManifestText(source.fs.files[p])

-----------------------------------------------------------------------------
(* C10 *)

\* C10: _is_argocd_app never raises, and returns true exactly when the file
\* exists and parses to a mapping whose apiVersion starts with "argoproj.io/"
\* and whose kind is "Application"
C10_Classifier ==
    cls.done =>
        /\ ~cls.raised
        /\ cls.value <=> (/\ IsFile(source.fs, cls.file)
                          /\ IsManifestText(source.fs.files[cls.file]))

\* the classifier has accepted a file
C10_Witness == cls.done /\ cls.value

\* the classifier has rejected a document of kind Application in another API group
C10_NegativeControl ==
    /\ cls.done /\ ~cls.value /\ IsFile(source.fs, cls.file)
    /\ LET d == SafeLoad(source.fs.files[cls.file]) IN
          /\ d.shape = "map"
          /\ Get(d.m, <<"kind">>, NoStr) = Application
          /\ Get(d.m, <<"apiVersion">>, NoStr) = <<"apps", "/", "v1">>

-----------------------------------------------------------------------------
(* C11 *)

\* a Chart.yaml or a file handed to the manifest helpers whose text does not
\* parse, parses to a list or a bare string, or is a manifest whose metadata,
\* spec or spec.source is null
FailingFiles ==
    {p \in DOMAIN source.fs.files :
        /\ Last(p) = ChartYaml \/ p \in ArgoCandidates(source)
        /\ LET d == SafeLoad(source.fs.files[p]) IN
           \/ d.shape \in {"bad", "list", "scalar"}
           \/ /\ IsManifestText(source.fs.files[p])
              /\ \/ <<"metadata">> \in DOMAIN d.m
                 \/ <<"spec">> \in DOMAIN d.m
                 \/ Get(d.m, <<"spec", "source">>, MappingValue) = NoStr}

\* the scanned repository with its failing files taken out
WellFormedOnly ==
    [source EXCEPT !.fs = MkFS(Restrict(source.fs.files,
                                        DOMAIN source.fs.files \ FailingFiles), {})]

RangeOf(s) == {s[i] : i \in 1..Len(s)}

\* C11: scan_repository does not raise, whatever failing files the repository
\* holds; it returns exactly the patterns of the repository's other files, and
\* no pattern it returns stems from a failing file
C11_FailOpen ==
    patterns.done =>
        /\ ~patterns.raised
        /\ Len(Scanned) = Len(ScanRepository(WellFormedOnly, patterns.ord))
        /\ RangeOf(Scanned) = RangeOf(ScanRepository(WellFormedOnly, patterns.ord))
        /\ \A i \in 1..Len(Scanned) : \A p \in FailingFiles :
              /\ Scanned[i].type = "helm" => Scanned[i].path # source.root \o Front(p)
              /\ Scanned[i].type = "argocd" => Scanned[i].configs # <<source.root \o p>>

\* a scan that returned patterns from a repository holding a failing
\* Chart.yaml and a manifest whose metadata or spec is null
C11_Witness ==
    /\ patterns.done /\ ~patterns.raised /\ Scanned # <<>>
    /\ \E p \in FailingFiles : Last(p) = ChartYaml
    /\ \E p \in FailingFiles : IsManifestText(source.fs.files[p])

-----------------------------------------------------------------------------
(* The analysis flow: scan_repository, then analyze_pattern on a pattern *)

MaxConfigs == 2

AnalyzeChart == <<<<"charts">>, Demo>>

\* the values.yaml documents of the analysed chart
ValuesTexts ==
    { HandWrittenValues,
      << Lit(<<"image", "tag">>, <<"v2">>) >>,
      << Lit(<<"namespace">>, <<"prod">>),
         Lit(<<"image", "repository">>, <<"nginx">>),
         Lit(<<"image", "pullPolicy">>, <<"Always">>) >>,
      << Lit(<<"replicaCount">>, <<"2">>) >>,
      <<>>,
      << Lit(GarbageKey, <<"{{">>) >>,
      << Lit(<<"image">>, <<"nginx">>) >>,
      << Lit(<<"image">>, NoStr) >>,
      << Lit(ListKey, <<"item">>) >> }

ManifestHead ==
    << Lit(<<"apiVersion">>, <<"argoproj.io", "/", "v1alpha1">>),
       Lit(<<"kind">>, Application) >>

\* the application manifests of the analysed repository
AnalyzeManifests ==
    (<<ArgocdName, <<"one", ".yaml">>>> :> HandWrittenApp(<<"one">>))
    @@ (<<ArgocdName, <<"two", ".yaml">>>> :>
            ManifestHead \o << Lit(<<"spec", "destination", "namespace">>, <<"staging">>) >>)
    @@ (<<ArgocdName, <<"three", ".yaml">>>> :>
            ManifestHead \o << Lit(<<"spec", "source", "path">>, <<"charts/three">>) >>)
    @@ (<<ArgocdName, <<"four", ".yaml">>>> :>
            ManifestHead \o << Lit(<<"metadata", "name">>, <<"four">>) >>)
    @@ (<<ArgocdName, <<"bad", ".yaml">>>> :> << Lit(GarbageKey, <<"{{">>) >>)

MissingConfig == <<ArgocdName, <<"gone", ".yaml">>>>

AnalyzeRepos ==
    { MkRepo(SourceRoot, NoGit,
             MkFS((AnalyzeChart \o <<ChartYaml>> :> HandWrittenChart(Demo))
                  @@ v @@ AnalyzeManifests, {})) :
        v \in {EmptyFS.files} \cup {AnalyzeChart \o <<ValuesYaml>> :> t : t \in ValuesTexts} }

\* the config lists an analysed application pattern may carry
ConfigLists ==
    UNION { [1..n -> {SourceRoot \o p : p \in DOMAIN AnalyzeManifests \cup {MissingConfig}}] :
            n \in 0..MaxConfigs }

InitAnalyze ==
    /\ tmpl = EmptyFS
    /\ target = MkRepo(TargetRoot, NoGit, EmptyFS)
    /\ source \in AnalyzeRepos
    /\ log = <<>>
    /\ patterns = NotScanned
    /\ cls = NotClassified
    /\ ana = NotAnalyzed
    /\ ren = NotRendered

\* one call of analyze_pattern on a pattern of the scan; an application
\* pattern is analysed as scanned or with a longer list of config files
Analyze(i, configs) ==
    /\ patterns.done /\ ~ana.done
    /\ i \in 1..Len(patterns.pats)
    /\ configs = patterns.pats[i].configs
          \/ (patterns.pats[i].type = "argocd" /\ configs \in ConfigLists)
    /\ LET pattern == [patterns.pats[i] EXCEPT !.configs = configs]
           r == AnalyzePattern(source, pattern)
       IN  ana' = [done |-> TRUE, pattern |-> pattern, raised |-> r.raised,
                   analysis |-> r.analysis]
    /\ UNCHANGED <<tmpl, target, source, log, patterns, cls, ren>>

NextAnalyze ==
    \/ \E ord \in Orders : Scan(ord)
    \/ \E i \in 1..Len(patterns.pats) :
          \E configs \in ConfigLists \cup {patterns.pats[i].configs} : Analyze(i, configs)

SpecAnalyze == InitAnalyze /\ [][NextAnalyze]_vars

-----------------------------------------------------------------------------
(* C12 *)

\* C12: analyze_pattern never raises: not on a chart whose values.yaml is
\* malformed or whose image entry is no mapping, not on an application pattern
\* with a malformed config file
C12_NeverPropagates == ana.done => ~ana.raised

-----------------------------------------------------------------------------
(* C13 *)

ValuesPath == Rel(source, ana.pattern.path) \o <<ValuesYaml>>

\* the parsed values.yaml of the analysed chart (empty when there is none)
ValuesMap ==
    IF IsFile(source.fs, ValuesPath) THEN SafeLoad(source.fs.files[ValuesPath]).m
    ELSE EmptyMap

\* there is no values.yaml, or it is empty or a mapping whose image entry, if
\* it has one, is a mapping
ValuesReadable ==
    IsFile(source.fs, ValuesPath) =>
        /\ SafeLoad(source.fs.files[ValuesPath]).shape \in {"null", "map"}
        /\ <<"image">> \notin DOMAIN ValuesMap

Parameters == ana.analysis.parameters

\* C13: for a chart with such a values file the analysis returns appName =
\* the pattern's name, namespace = the top-level namespace key or 'default',
\* and image = {repository: '', tag: 'latest'} overridden key by key by the
\* values file's image mapping
C13_HelmExtraction ==
    (ana.done /\ ana.pattern.type = "helm" /\ ValuesReadable) =>
        /\ ~ana.raised
        /\ Parameters.appName = ana.pattern.name
        /\ Parameters.namespace =
              (IF <<"namespace">> \in DOMAIN ValuesMap THEN ValuesMap[<<"namespace">>]
               ELSE <<"default">>)
        /\ {"repository", "tag"} \subseteq DOMAIN Parameters.image
        /\ Parameters.image["repository"] =
              (IF <<"image", "repository">> \in DOMAIN ValuesMap
               THEN ValuesMap[<<"image", "repository">>] ELSE <<>>)
        /\ Parameters.image["tag"] =
              (IF <<"image", "tag">> \in DOMAIN ValuesMap
               THEN ValuesMap[<<"image", "tag">>] ELSE <<"latest">>)
        /\ \A k \in DOMAIN ValuesMap : (Len(k) = 2 /\ k[1] = "image") =>
              /\ k[2] \in DOMAIN Parameters.image
              /\ Parameters.image[k[2]] = ValuesMap[k]

\* the analysis of a chart whose values file is "image: {tag: v2}" returned
\* tag 'v2', repository '' and namespace 'default'
C13_Witness ==
    /\ ana.done /\ ~ana.raised /\ ana.pattern.type = "helm"
    /\ IsFile(source.fs, ValuesPath)
    /\ DOMAIN ValuesMap = {<<"image", "tag">>}
    /\ Parameters.image["tag"] = <<"v2">>
    /\ Parameters.image["repository"] = <<>>
    /\ Parameters.namespace = <<"default">>

-----------------------------------------------------------------------------
(* C14 *)

ConfigDoc(config_path) ==
    IF IsFile(source.fs, Rel(source, config_path))
    THEN SafeLoad(source.fs.files[Rel(source, config_path)])
    ELSE [shape |-> "null", m |-> EmptyMap]

\* every config file that exists is empty or a mapping whose spec, destination
\* and source, where present, are mappings
ConfigsReadable(configs) ==
    \A i \in 1..Len(configs) :
        /\ ConfigDoc(configs[i]).shape \in {"null", "map"}
        /\ {<<"spec">>, <<"spec", "destination">>, <<"spec", "source">>}
              \cap DOMAIN ConfigDoc(configs[i]).m = {}

\* the value of the last config file that defines the key, else the default
LastDefined(configs, key, default) ==
    LET D == {i \in 1..Len(configs) : HasKey(ConfigDoc(configs[i]).m, key)} IN
    IF D = {} THEN default
    ELSE Get(ConfigDoc(configs[CHOOSE i \in D : \A j \in D : j <= i]).m, key, default)

\* C14: for an application pattern whose config files are readable the
\* analysis returns, for namespace, repoURL and path, the value of the last
\* config file that defines spec.destination.namespace, spec.source.repoURL
\* and spec.source.path, and 'argocd', '' and '' where no file defines it
C14_LastWriteWins ==
    (ana.done /\ ana.pattern.type = "argocd" /\ ConfigsReadable(ana.pattern.configs)) =>
        /\ ~ana.raised
        /\ Parameters.namespace =
              LastDefined(ana.pattern.configs, <<"spec", "destination", "namespace">>,
                          <<"argocd">>)
        /\ Parameters.repoURL =
              LastDefined(ana.pattern.configs, <<"spec", "source", "repoURL">>, <<>>)
        /\ Parameters.path =
              LastDefined(ana.pattern.configs, <<"spec", "source", "path">>, <<>>)

\* an analysis over two config files: both define path, with different
\* values, and only the first defines repoURL; the result has the first
\* file's repoURL and the second file's path
C14_Witness ==
    /\ ana.done /\ ~ana.raised /\ ana.pattern.type = "argocd"
    /\ Len(ana.pattern.configs) = 2
    /\ LET m1 == ConfigDoc(ana.pattern.configs[1]).m
           m2 == ConfigDoc(ana.pattern.configs[2]).m
       IN  /\ <<"spec", "source", "repoURL">> \in DOMAIN m1
           /\ <<"spec", "source", "repoURL">> \notin DOMAIN m2
           /\ <<"spec", "source", "path">> \in DOMAIN m1
           /\ <<"spec", "source", "path">> \in DOMAIN m2
           /\ m1[<<"spec", "source", "path">>] # m2[<<"spec", "source", "path">>]
           /\ Parameters.repoURL = m1[<<"spec", "source", "repoURL">>]
           /\ Parameters.path = m2[<<"spec", "source", "path">>]

-----------------------------------------------------------------------------
(* The render flow: render_template on a template body and a variable set *)

\* the bodies the engine writes
Bodies == {ChartTemplate, ValuesTemplate, DeploymentTemplate, AppTemplate}

\* the variable sets: the applicator's, cut down to any subset of its keys
VariableSets ==
    LET full == ExtractVariablesForRepo(MkRepo(TargetRoot, NoGit, EmptyFS)) IN
    {Restrict(full, K) : K \in SUBSET DOMAIN full}

InitRender ==
    /\ tmpl = EmptyFS
    /\ target = MkRepo(TargetRoot, NoGit, EmptyFS)
    /\ source = MkRepo(SourceRoot, NoGit, EmptyFS)
    /\ log = <<>>
    /\ patterns = NotScanned
    /\ cls = NotClassified
    /\ ana = NotAnalyzed
    /\ ren = NotRendered

\* one call of render_template
RenderTemplate(content, variables) ==
    /\ ~ren.done
    /\ LET r == Render(content, variables) IN
       ren' = [done |-> TRUE, content |-> content, variables |-> variables,
               raised |-> r.raised, text |-> r.text]
    /\ UNCHANGED <<tmpl, target, source, log, patterns, cls, ana>>

NextRender == \E content \in Bodies, variables \in VariableSets :
                 RenderTemplate(content, variables)

SpecRender == InitRender /\ [][NextRender]_vars

-----------------------------------------------------------------------------
(* C15 *)

\* the placeholders without default of the lines of a body that are emitted
\* for a variable set
BarePlaceholders(content, variables) ==
    {l.n : l \in {x \in RangeOf(Emitted(content, variables)) :
                    x.t = "var" /\ ~x.hasd /\ x.dv = ""}}

\* C15: rendering a body that holds a placeholder without default whose
\* variable the variable set lacks raises
C15_MissingIsHardError ==
    (ren.done /\ ~(BarePlaceholders(ren.content, ren.variables)
                      \subseteq DOMAIN ren.variables))
        => ren.raised

-----------------------------------------------------------------------------
(* C16 *)

\* no file of the template entry p fails to render
Renderable(tfs, p) ==
    \A f \in (IF IsDir(tfs, p) THEN FilesBelow(tfs, p) ELSE {p}) :
        Suffix(Last(f)) \in RenderedSuffixes =>
            ~Render(tfs.files[f], ExtractVariablesForRepo(target)).raised

\* no file of the in-memory template fails to render
RenderableTemplate(template) ==
    \A i \in 1..Len(template.files) :
        ~Render(template.files[i].content, ExtractVariablesForRepo(target)).raised

\* C16: a call with dry_run = false returns, and it reports an outcome for
\* every template of the batch that renders, whether or not another template
\* of the batch failed to render (apply_patterns and apply_patterns_direct)
C16_RenderFailureIsLocal ==
    \A c \in Calls : ~c.dry_run =>
        /\ ~c.raised
        /\ c.op = "apply" =>
              \A p \in Handled(tmpl) :
                  Renderable(tmpl, p) => StatusesOf(c, PatternOf(tmpl, p)) # {}
        /\ c.op = "replicate" =>
              LET templates == CreateTemplates(ScanRepository(source, c.ord)) IN
              \A i \in 1..Len(templates) :
                  (RenderableTemplate(templates[i]) /\ templates[i].name # NoStr) =>
                      StatusesOf(c, <<templates[i].type, "/">> \o templates[i].name) # {}

-----------------------------------------------------------------------------
(* C17 *)

\* the file p of the tree fs holds the line "k: v"
HasLine(fs, p, k, v) ==
    /\ IsFile(fs, p)
    /\ \E i \in 1..Len(fs.files[p]) : fs.files[p][i].k = k /\ fs.files[p][i].v = v

\* the source holds a chart named demo and an application named demo
DemoSource ==
    LET found == ScanRepository(source, "fwd") IN
    /\ \E i \in 1..Len(found) : found[i].type = "helm" /\ found[i].name = Demo
    /\ \E i \in 1..Len(found) : found[i].type = "argocd" /\ found[i].name = Demo

\* C17: replicate with dry_run = false from such a source into an empty
\* target without git remote returns and leaves deployments/helm/demo/Chart.yaml
\* with "name: demo" and "version: 0.1.0", and
\* deployments/argocd/demo-application.yaml with repoURL
\* https://github.com/org/<name of the target directory>
C17_ReplicateDemo ==
    \A c \in Calls :
        (/\ c.op = "replicate" /\ ~c.dry_run /\ DemoSource
         /\ c.pre = EmptyFS /\ GetRemoteUrl(target) = NoStr) =>
            /\ ~c.raised
            /\ HasLine(c.post, <<Deployments, HelmName, Demo, ChartYaml>>, <<"name">>, Demo)
            /\ HasLine(c.post, <<Deployments, HelmName, Demo, ChartYaml>>,
                       <<"version">>, <<"0.1.0">>)
            /\ HasLine(c.post, <<Deployments, ArgocdName, <<"demo", "-application", ".yaml">>>>,
                       <<"spec", "source", "repoURL">>,
                       <<"https://github.com/org/">> \o Last(target.root))

\* what the call does instead: it raises after writing Chart.yaml with the
\* target directory's name and values.yaml, and writes no application manifest
C17_Observed ==
    \A c \in Calls :
        (/\ c.op = "replicate" /\ ~c.dry_run /\ DemoSource
         /\ c.pre = EmptyFS /\ GetRemoteUrl(target) = NoStr) =>
            /\ c.raised
            /\ HasLine(c.post, <<Deployments, HelmName, Demo, ChartYaml>>,
                       <<"name">>, Last(target.root))
            /\ HasLine(c.post, <<Deployments, HelmName, Demo, ChartYaml>>,
                       <<"version">>, <<"0.1.0">>)
            /\ IsFile(c.post, <<Deployments, HelmName, Demo, ValuesYaml>>)
            /\ ~Exists(c.post, <<Deployments, ArgocdName>>)

-----------------------------------------------------------------------------
(* C18 *)

\* the application patterns of the scan that carry the file p in configs
ArgoIndexesOf(p) ==
    {i \in 1..Len(Scanned) :
        Scanned[i].type = "argocd" /\ Scanned[i].configs = <<source.root \o p>>}

\* the manifests the detector is handed and can analyse
DetectableManifests ==
    {p \in ArgoCandidates(source) \ FailingFiles : IsManifestText(source.fs.files[p])}

\* the file lies in a conventional directory and is named *application*.yaml
InBothPasses(p) ==
    /\ MatchesApplicationYaml(Last(p))
    /\ \E i \in 1..Len(ArgocdPaths) : Front(p) = ArgocdPaths[i]

\* C18: a scan returns at most one application pattern per file, also for a
\* file both passes match, and exactly one for each manifest handed to the
\* detector, so that two manifests of one directory stay two patterns
C18_OnePatternPerManifest ==
    patterns.done =>
        /\ \A p \in DOMAIN source.fs.files : Cardinality(ArgoIndexesOf(p)) <= 1
        /\ \A p \in DetectableManifests : Cardinality(ArgoIndexesOf(p)) = 1
        /\ \A i \in 1..Len(Scanned) : Scanned[i].type = "argocd" =>
              \E p \in DetectableManifests : i \in ArgoIndexesOf(p)

\* a scan of a tree with a manifest both passes match and a second manifest
\* in the same directory: one pattern each
C18_Witness ==
    /\ patterns.done
    /\ \E p, q \in DetectableManifests :
          /\ p # q /\ Front(p) = Front(q) /\ InBothPasses(p)
          /\ Cardinality(ArgoIndexesOf(p)) = 1 /\ Cardinality(ArgoIndexesOf(q)) = 1

-----------------------------------------------------------------------------
(* C19 *)

\* the chart directories of the template set
ChartDirs == {p \in Handled(tmpl) : IsDir(tmpl, p)}

\* C19: in an apply_patterns call with force = false and dry_run = false on
\* a target that holds no chart when the call starts, every chart directory of
\* the template set is reported applied
C19_SnapshotBeforeWrites ==
    \A c \in ApplyCalls : (~c.force /\ ~c.dry_run /\ ~Present(c.pre, "helm")) =>
        \A p \in ChartDirs : StatusesOf(c, PatternOf(tmpl, p)) = {"applied"}

\* what remains of C19 for calls that return: every chart directory is
\* reported applied, although the target holds a chart once the first is written
C19_WhenReturning ==
    \A c \in ApplyCalls :
        (~c.force /\ ~c.dry_run /\ ~Present(c.pre, "helm") /\ ~c.raised) =>
            /\ \A p \in ChartDirs : StatusesOf(c, PatternOf(tmpl, p)) = {"applied"}
            /\ ChartDirs # {} => Present(c.post, "helm")

\* such a call has returned on a template set with two chart directories
C19_TwoCharts ==
    \E c \in ApplyCalls :
        /\ ~c.force /\ ~c.dry_run /\ ~Present(c.pre, "helm") /\ ~c.raised
        /\ Cardinality(ChartDirs) = 2

====
